---- MODULE Spec2Model ----
(***************************************************************************)
(* Model of the ongtrum test runner (src/ongtrum.py): the run() pipeline   *)
(* (filter preparation, discovery, single-worker and multi-worker          *)
(* execution, summary) and worker_run_files().                             *)
(*                                                                         *)
(* Strings that the code splits, strips or compares (the filter            *)
(* expression, file, class and method names) are sequences of              *)
(* one-character strings.                                                  *)
(***************************************************************************)
EXTENDS Integers, Sequences, FiniteSets, Bags, TLC

\* ------------------------------------------------------------------ bounds
\* Largest number of files the project tree holds.
MaxUnits == 3
\* The --workers value of the multi-worker runs; 0 ("not given") and 1 are
\* tried besides it.
MaxWorkers == 2
\* Largest --batch-size value tried.
MaxBatchSize == 2
\* Largest number of prep registrations made.
MaxPreps == 3

\* ------------------------------------------------------------------ values
\* Python's None where a string is expected (no character is "None").
None == <<"None">>
Star == <<"*">>
\* TestSpec.error of a passed outcome (None in the code).
NoError == <<>>
\* The binding of a method without __params__: the single None of [None].
NoneBinding == [kind |-> "none", args |-> <<>>]

\* ------------------------------------------------------------------ strings
RECURSIVE IndexOf(_, _, _)
\* Index of the first sep in s at or after i, 0 when there is none.
IndexOf(s, sep, i) ==
    IF i > Len(s) THEN 0
    ELSE IF s[i] = sep THEN i
    ELSE IndexOf(s, sep, i + 1)

RECURSIVE Split(_, _)
\* str.split(sep): the segments between the separators, empty ones kept.
Split(s, sep) ==
    LET i == IndexOf(s, sep, 1) IN
    IF i = 0 THEN <<s>>
    ELSE <<SubSeq(s, 1, i - 1)>> \o Split(SubSeq(s, i + 1, Len(s)), sep)

RECURSIVE Strip(_)
\* str.strip(): leading and trailing blanks removed.
Strip(s) ==
    IF s # <<>> /\ Head(s) = " " THEN Strip(Tail(s))
    ELSE IF s # <<>> /\ s[Len(s)] = " " THEN Strip(SubSeq(s, 1, Len(s) - 1))
    ELSE s

PySuffix == <<".", "p", "y">>

\* str.removesuffix('.py')
RemoveSuffix(s) ==
    IF Len(s) >= Len(PySuffix)
       /\ SubSeq(s, Len(s) - Len(PySuffix) + 1, Len(s)) = PySuffix
    THEN SubSeq(s, 1, Len(s) - Len(PySuffix))
    ELSE s

RECURSIVE ConcatAll(_)
ConcatAll(ss) == IF ss = <<>> THEN <<>> ELSE Head(ss) \o ConcatAll(Tail(ss))

Map(f(_), s) == [i \in 1..Len(s) |-> f(s[i])]

\* ------------------------------------------------------------------ filter
\* passes_filter(value, filter_value)
PassesFilter(value, filter_value) ==
    \/ filter_value = None \/ filter_value = <<>>
    \/ filter_value = Star
    \/ value = filter_value

\* A pattern is set and is no wildcard (the truthiness and '*' tests that
\* guard each comparison in worker_run_files).
Restricts(pattern) == pattern # None /\ pattern # <<>> /\ pattern # Star

\* Mutant of FileFilterSkips: the file pattern is not applied.
FileFilterOff(test_filter, file_name) == FALSE

\* Line 117: the unit is skipped by the file filter.
FileFilterSkips(test_filter, file_name) ==
    Restricts(test_filter.file_name) /\ file_name # test_filter.file_name

\* Mutant of ClsFilterSkips: the class pattern is not applied.
ClsFilterOff(test_filter, cls_name) == FALSE

\* Line 123: the class is skipped by the class filter.
ClsFilterSkips(test_filter, cls_name) ==
    Restricts(test_filter.cls_name) /\ cls_name # test_filter.cls_name

\* Line 128: the method is kept by the method filter.
MethodFilterKeeps(test_filter, m) ==
    ~Restricts(test_filter.method_name) \/ m = test_filter.method_name

\* Lines 121-131: filtered_test_methods, an ordered mapping kept as a
\* sequence of (cls_name, method_names) entries.
FilteredTestMethods(test_methods, test_filter) ==
    LET Narrow(e) ==
            [cls_name |-> e.cls_name,
             method_names |->
                SelectSeq(e.method_names,
                          LAMBDA m: MethodFilterKeeps(test_filter, m))]
        Keep(e) == ~ClsFilterSkips(test_filter, e.cls_name)
                   /\ Narrow(e).method_names # <<>>
    IN Map(Narrow, SelectSeq(test_methods, Keep))

\* ------------------------------------------------------------------ outcomes
\* TestSpec(file_name, cls_name, method_name, status, error, params)
TestSpec(file_name, cls_name, method_name, status, error, params) ==
    [file_name |-> file_name, cls_name |-> cls_name,
     method_name |-> method_name, status |-> status,
     error |-> error, params |-> params]

\* f'{type(e).__name__} - {str(e) or "Undefined"}'
ErrorText(exc, msg) == <<exc, " - ", IF msg = "" THEN "Undefined" ELSE msg>>

\* Lines 160-179: one binding of params_list. The method is called for a
\* None, a mapping or a sequence binding, and for nothing else.
Invoked(b) == b.kind \in {"none", "dict", "seq"}

InvokeBinding(file_name, cls_name, method_name, b) ==
    LET params == IF b.kind = "none" THEN NoneBinding
                  ELSE [kind |-> b.kind, args |-> b.args] IN
    IF Invoked(b) /\ b.raises
    THEN TestSpec(file_name, cls_name, method_name, FALSE,
                  ErrorText(b.exc, b.msg), params)
    ELSE TestSpec(file_name, cls_name, method_name, TRUE, NoError, params)

\* Mutant of ParamsList: only the first binding is used.
ParamsListFirst(method) ==
    IF method.has_params THEN SubSeq(method.params, 1, 1)
    ELSE <<[kind |-> "none", args |-> <<>>, raises |-> method.raises,
            exc |-> method.exc, msg |-> method.msg]>>

\* getattr(method, '__params__', [None])
ParamsList(method) ==
    IF method.has_params THEN method.params
    ELSE <<[kind |-> "none", args |-> <<>>, raises |-> method.raises,
            exc |-> method.exc, msg |-> method.msg]>>

\* getattr(instance, method_name, None): the attribute of that name, a
\* sequence that is empty when there is none (or it is falsy).
GetAttr(cls, method_name) ==
    SelectSeq(cls.methods, LAMBDA m: m.name = method_name /\ m.found)

\* Mutant of MethodRun: a method missing from the instance is passed over
\* without an outcome.
MethodRunSkipMissing(file_name, cls, method_name) ==
    LET found == GetAttr(cls, method_name) IN
    IF found = <<>> THEN <<>>
    ELSE Map(LAMBDA b: InvokeBinding(file_name, cls.name, method_name, b),
             ParamsList(Head(found)))

\* Lines 153-179: one method of an instantiated class.
MethodRun(file_name, cls, method_name) ==
    LET found == GetAttr(cls, method_name) IN
    IF found = <<>>
    THEN <<TestSpec(file_name, cls.name, method_name, FALSE,
                    <<"MethodNotFound">>, NoneBinding)>>
    ELSE Map(LAMBDA b: InvokeBinding(file_name, cls.name, method_name, b),
             ParamsList(Head(found)))

\* test_namespace.get(cls_name)
NamespaceGet(content, cls_name) ==
    SelectSeq(content.classes, LAMBDA c: c.name = cls_name /\ c.present)

\* Mutant of ClassRun: a class missing from the namespace is recorded once,
\* without a method name.
ClassRunNoMethod(file_name, content, e) ==
    LET cls == NamespaceGet(content, e.cls_name) IN
    IF cls = <<>>
    THEN [results |-> <<TestSpec(file_name, e.cls_name, None, FALSE,
                                 <<"ClassNotFound">>, NoneBinding)>>,
          raised |-> FALSE]
    ELSE IF Head(cls).ctor_raises
    THEN [results |-> <<>>, raised |-> TRUE]
    ELSE [results |->
             ConcatAll(Map(LAMBDA m: MethodRun(file_name, Head(cls), m),
                           e.method_names)),
          raised |-> FALSE]

\* Lines 145-179: one surviving class of a loaded unit. raised: cls() raised
\* and the exception leaves worker_run_files.
ClassRun(file_name, content, e) ==
    LET cls == NamespaceGet(content, e.cls_name) IN
    IF cls = <<>>
    THEN [results |->
             Map(LAMBDA m: TestSpec(file_name, e.cls_name, m, FALSE,
                                    <<"ClassNotFound">>, NoneBinding),
                 e.method_names),
          raised |-> FALSE]
    ELSE IF Head(cls).ctor_raises
    THEN [results |-> <<>>, raised |-> TRUE]
    ELSE [results |->
             ConcatAll(Map(LAMBDA m: MethodRun(file_name, Head(cls), m),
                           e.method_names)),
          raised |-> FALSE]

RECURSIVE ClassesRunReversed(_, _, _)
\* Mutant of ClassesRun: the outcomes of a later class come first.
ClassesRunReversed(file_name, content, entries) ==
    IF entries = <<>> THEN [results |-> <<>>, raised |-> FALSE]
    ELSE LET c == ClassRun(file_name, content, Head(entries)) IN
         IF c.raised THEN [results |-> <<>>, raised |-> TRUE]
         ELSE LET rest == ClassesRunReversed(file_name, content, Tail(entries))
              IN [results |-> rest.results \o c.results,
                  raised |-> rest.raised]

RECURSIVE ClassesRun(_, _, _)
\* Line 145: the loop over filtered_test_methods; it ends at the first class
\* whose constructor raises.
ClassesRun(file_name, content, entries) ==
    IF entries = <<>> THEN [results |-> <<>>, raised |-> FALSE]
    ELSE LET c == ClassRun(file_name, content, Head(entries)) IN
         IF c.raised THEN [results |-> <<>>, raised |-> TRUE]
         ELSE LET rest == ClassesRun(file_name, content, Tail(entries)) IN
              [results |-> c.results \o rest.results, raised |-> rest.raised]

\* Mutant of UnitRun: a unit that fails to load records one ExecError per
\* surviving class instead of one per surviving method.
UnitRunOnePerClass(task, test_filter) ==
    LET filtered == FilteredTestMethods(task.test_methods, test_filter) IN
    IF FileFilterSkips(test_filter, task.file_name)
    THEN [results |-> <<>>, raised |-> FALSE]
    ELSE IF filtered = <<>>
    THEN [results |-> <<>>, raised |-> FALSE]
    ELSE IF ~task.content.loads
    THEN [results |->
             Map(LAMBDA e: TestSpec(task.file_name, e.cls_name,
                                    Head(e.method_names), FALSE,
                                    <<"ExecError: ", task.content.exc_msg>>,
                                    NoneBinding), filtered),
          raised |-> FALSE]
    ELSE ClassesRun(task.file_name, task.content, filtered)

\* Lines 116-179: one (file_name, content, test_methods) of the batch.
UnitRun(task, test_filter) ==
    LET filtered == FilteredTestMethods(task.test_methods, test_filter) IN
    IF FileFilterSkips(test_filter, task.file_name)
    THEN [results |-> <<>>, raised |-> FALSE]
    ELSE IF filtered = <<>>
    THEN [results |-> <<>>, raised |-> FALSE]
    ELSE IF ~task.content.loads
    THEN [results |->
             ConcatAll(Map(LAMBDA e:
                 Map(LAMBDA m: TestSpec(task.file_name, e.cls_name, m, FALSE,
                                        <<"ExecError: ", task.content.exc_msg>>,
                                        NoneBinding),
                     e.method_names), filtered)),
          raised |-> FALSE]
    ELSE ClassesRun(task.file_name, task.content, filtered)

RECURSIVE WorkerRunFiles(_, _)
\* worker_run_files(batch, test_filter): the list it returns, or raised when
\* an exception leaves it (the results gathered so far are then lost).
WorkerRunFiles(batch, test_filter) ==
    IF batch = <<>> THEN [results |-> <<>>, raised |-> FALSE]
    ELSE LET u == UnitRun(Head(batch), test_filter) IN
         IF u.raised THEN [results |-> <<>>, raised |-> TRUE]
         ELSE LET rest == WorkerRunFiles(Tail(batch), test_filter) IN
              [results |-> IF rest.raised THEN <<>>
                           ELSE u.results \o rest.results,
               raised |-> rest.raised]

\* ------------------------------------------------------------ side effects
\* What worker_run_files does besides appending outcomes: exec of a unit's
\* content (line 138), cls() (line 152) and the calls of a test method
\* (lines 162-167), in the order they happen.
Event(ev, file_name, cls_name, method_name, params, style) ==
    [ev |-> ev, file_name |-> file_name, cls_name |-> cls_name,
     method_name |-> method_name, params |-> params, style |-> style]

\* Lines 162-167: method(), method(**params) or method(*params).
CallStyle(b) ==
    IF b.kind = "none" THEN "no arguments"
    ELSE IF b.kind = "dict" THEN "named" ELSE "positional"

\* Lines 160-167: the call made for one binding of params_list, if any.
BindingEvents(file_name, cls_name, method_name, b) ==
    IF Invoked(b)
    THEN <<Event("call", file_name, cls_name, method_name,
                 IF b.kind = "none" THEN NoneBinding
                 ELSE [kind |-> b.kind, args |-> b.args], CallStyle(b))>>
    ELSE <<>>

\* Lines 153-167: the calls made for one method of an instantiated class.
MethodEvents(file_name, cls, method_name) ==
    LET found == GetAttr(cls, method_name) IN
    IF found = <<>> THEN <<>>
    ELSE ConcatAll(Map(LAMBDA b: BindingEvents(file_name, cls.name,
                                               method_name, b),
                       ParamsList(Head(found))))

\* Lines 145-167: the instantiation of one surviving class and the calls of
\* its methods.
ClassEvents(file_name, content, e) ==
    LET cls == NamespaceGet(content, e.cls_name)
        init == Event("init", file_name, e.cls_name, None, NoneBinding, "")
    IN IF cls = <<>> THEN <<>>
       ELSE IF Head(cls).ctor_raises THEN <<init>>
       ELSE <<init>> \o
            ConcatAll(Map(LAMBDA m: MethodEvents(file_name, Head(cls), m),
                          e.method_names))

RECURSIVE ClassesEvents(_, _, _)
\* Line 145: the loop over filtered_test_methods, up to and including the
\* first class whose constructor raises.
ClassesEvents(file_name, content, entries) ==
    IF entries = <<>> THEN <<>>
    ELSE IF ClassRun(file_name, content, Head(entries)).raised
    THEN ClassEvents(file_name, content, Head(entries))
    ELSE ClassEvents(file_name, content, Head(entries))
         \o ClassesEvents(file_name, content, Tail(entries))

\* Lines 116-167: a unit that is not skipped is exec'ed, and its classes are
\* instantiated when the exec succeeded.
UnitEvents(task, test_filter) ==
    LET filtered == FilteredTestMethods(task.test_methods, test_filter)
        exec == Event("exec", task.file_name, None, None, NoneBinding, "")
    IN IF FileFilterSkips(test_filter, task.file_name) THEN <<>>
       ELSE IF filtered = <<>> THEN <<>>
       ELSE IF ~task.content.loads THEN <<exec>>
       ELSE <<exec>> \o ClassesEvents(task.file_name, task.content, filtered)

RECURSIVE WorkerEvents(_, _)
\* Line 115: the loop over the batch, up to and including the unit in which
\* an exception leaves worker_run_files.
WorkerEvents(batch, test_filter) ==
    IF batch = <<>> THEN <<>>
    ELSE IF UnitRun(Head(batch), test_filter).raised
    THEN UnitEvents(Head(batch), test_filter)
    ELSE UnitEvents(Head(batch), test_filter)
         \o WorkerEvents(Tail(batch), test_filter)

\* ------------------------------------------------------------------ report
\* Truthiness of _result.params (None and empty bindings are falsy).
Truthy(params) == params.kind # "none" /\ params.args # <<>>

\* repr_result(_result): the ResultSpec of a TestSpec.
ReprResult(r) ==
    [status |-> r.status, file_name |-> r.file_name, cls_name |-> r.cls_name,
     method_name |-> r.method_name,
     params_exp |-> IF Truthy(r.params) THEN <<"[", r.params, "]">> ELSE <<>>,
     error |-> r.error]

\* ResultSpec.__str__
Str(r) ==
    IF r.status
    THEN <<"[PASS]", r.file_name, r.cls_name, r.method_name, r.params_exp>>
    ELSE <<"[FAIL]", r.file_name, r.cls_name, r.method_name, r.params_exp,
           r.error>>

\* ------------------------------------------------------------------ run()
\* Lines 204-209: the TestSpec built from the --filter expression; ok is
\* FALSE when the ValueError is raised.
NoTestSpec == [file_name |-> None, cls_name |-> None, method_name |-> None]

\* Mutant of PrepareTestFilter: segments after the third are ignored.
PrepareTestFilterLax(expr) ==
    IF expr = None \/ expr = <<>> THEN [ok |-> TRUE, spec |-> NoTestSpec]
    ELSE LET parts == Map(Strip, Split(expr, "."))
             Part(i) == IF i <= Len(parts) THEN parts[i] ELSE None IN
         [ok |-> TRUE,
          spec |-> [file_name |-> Part(1), cls_name |-> Part(2),
                    method_name |-> Part(3)]]

PrepareTestFilter(expr) ==
    IF expr = None \/ expr = <<>> THEN [ok |-> TRUE, spec |-> NoTestSpec]
    ELSE LET parts == Map(Strip, Split(expr, "."))
             Part(i) == IF i <= Len(parts) THEN parts[i] ELSE None IN
         IF ~(1 <= Len(parts) /\ Len(parts) <= 3)
         THEN [ok |-> FALSE, spec |-> NoTestSpec]
         ELSE [ok |-> TRUE,
               spec |-> [file_name |-> Part(1), cls_name |-> Part(2),
                         method_name |-> Part(3)]]

\* parse(content) of ast_parser: the names of the test classes and the
\* ordered mapping class name -> method names, read off the source text.
Parse(content) ==
    [test_classes |-> Map(LAMBDA c: c.name, content.classes),
     test_methods |->
        Map(LAMBDA c: [cls_name |-> c.name,
                       method_names |-> Map(LAMBDA m: m.name, c.methods)],
            content.classes)]

\* Mutant of CountMethods: the classes are counted, not their methods.
CountClasses(test_methods) == Len(test_methods)

RECURSIVE CountMethods(_)
\* sum(len(m) for m in test_methods.values())
CountMethods(test_methods) ==
    IF test_methods = <<>> THEN 0
    ELSE Len(Head(test_methods).method_names) + CountMethods(Tail(test_methods))

RECURSIVE Discover(_)
\* Lines 218-223: the tasks and the collected count of the scanned files.
Discover(files) ==
    IF files = <<>> THEN [all_tasks |-> <<>>, collected_tests |-> 0]
    ELSE LET u == Head(files)
             p == Parse(u)
             rest == Discover(Tail(files)) IN
         IF p.test_classes = <<>> THEN rest
         ELSE [all_tasks |->
                  <<[file_name |-> RemoveSuffix(u.file_name), content |-> u,
                     test_methods |-> p.test_methods]>> \o rest.all_tasks,
               collected_tests |->
                  CountMethods(p.test_methods) + rest.collected_tests]

RECURSIVE BatchesFrom(_, _, _)
\* Line 257: all_tasks[i:i + batch_size] for i in range(i, len, batch_size)
BatchesFrom(tasks, i, size) ==
    IF i >= Len(tasks) THEN <<>>
    ELSE <<SubSeq(tasks, i + 1,
                  IF i + size <= Len(tasks) THEN i + size ELSE Len(tasks))>>
         \o BatchesFrom(tasks, i + size, size)

RECURSIVE FullBatchesFrom(_, _, _)
FullBatchesFrom(tasks, i, size) ==
    IF i + size > Len(tasks) THEN <<>>
    ELSE <<SubSeq(tasks, i + 1, i + size)>>
         \o FullBatchesFrom(tasks, i + size, size)

\* Mutant of Batches: the last, shorter batch is dropped.
BatchesFullOnly(tasks, size) == FullBatchesFrom(tasks, 0, size)

Batches(tasks, size) == BatchesFrom(tasks, 0, size)

RECURSIVE SingleWorkerRun(_, _)
\* Lines 244-248: the reprs of the whole single-worker loop, or raised when a
\* worker_run_files call raises.
SingleWorkerRun(tasks, test_filter) ==
    IF tasks = <<>> THEN [reprs |-> <<>>, raised |-> FALSE]
    ELSE LET w == WorkerRunFiles(<<Head(tasks)>>, test_filter) IN
         IF w.raised THEN [reprs |-> <<>>, raised |-> TRUE]
         ELSE LET rest == SingleWorkerRun(Tail(tasks), test_filter) IN
              [reprs |-> Map(ReprResult, w.results) \o rest.reprs,
               raised |-> rest.raised]

\* Line 244: not max_workers or max_workers == 1
SingleWorker(workers) == workers = 0 \/ workers = 1

\* Mutant of Summary: the outcomes that passed are counted as failures.
SummaryCountsPassed(collected, rs) ==
    LET executed == Len(rs)
        failures == Cardinality({i \in 1..Len(rs) : rs[i].status}) IN
    <<"Summary", collected, executed, failures, executed - failures>>

\* Lines 267-275: the summary block.
Summary(collected, rs) ==
    LET executed == Len(rs)
        failures == Cardinality({i \in 1..Len(rs) : ~rs[i].status}) IN
    <<"Summary", collected, executed, failures, executed - failures>>

\* ------------------------------------------------------------------ inputs
\* The suite names used in @suites tags and --suite.
Smoke == <<"smoke">>
Slow == <<"slow">>

\* One parameter binding of __params__ and what calling the method with it
\* does. kind "other" is a binding that is no None, mapping or sequence.
Binding(kind, args, raises, exc, msg) ==
    [kind |-> kind, args |-> args, raises |-> raises, exc |-> exc, msg |-> msg]

\* One test method of a class: found says whether getattr() finds it on the
\* instance; raises, exc, msg say what a call without arguments does.
Method(name, found, has_params, params, raises, exc, msg, suites) ==
    [name |-> name, found |-> found, has_params |-> has_params,
     params |-> params, raises |-> raises, exc |-> exc, msg |-> msg,
     suites |-> suites]

\* One test class of a file: present says whether the loaded namespace holds
\* it, ctor_raises whether cls() raises.
Class(name, present, ctor_raises, methods) ==
    [name |-> name, present |-> present, ctor_raises |-> ctor_raises,
     methods |-> methods]

\* One file yielded by scan(): loads says whether exec(compile(content))
\* returns, exc_msg is the text of the exception when it does not.
File(name, loads, exc_msg, classes) ==
    [file_name |-> name \o PySuffix, loads |-> loads, exc_msg |-> exc_msg,
     classes |-> classes]

Passing(name, suites) == Method(name, TRUE, FALSE, <<>>, FALSE, "", "", suites)

\* a.py: one class, one passing method and one raising ValueError("x").
FileA ==
    File(<<"a">>, TRUE, "",
         <<Class(<<"A">>, TRUE, FALSE,
                 <<Passing(<<"x">>, {}),
                   Method(<<"y">>, TRUE, FALSE, <<>>, TRUE, "ValueError", "x",
                          {Smoke})>>)>>)

\* b.py: a class missing from the namespace, then a class with a
\* parameterised method and a method missing from the instance.
FileB ==
    File(<<"b">>, TRUE, "",
         <<Class(<<"B">>, FALSE, FALSE, <<Passing(<<"x">>, {})>>),
           Class(<<"A">>, TRUE, FALSE,
                 <<Method(<<"x">>, TRUE, TRUE,
                          <<Binding("dict", <<"k">>, FALSE, "", ""),
                            Binding("seq", <<"v">>, TRUE, "AssertionError", ""),
                            Binding("dict", <<>>, FALSE, "", "")>>,
                          FALSE, "", "", {Slow}),
                   Method(<<"w">>, FALSE, FALSE, <<>>, FALSE, "", "", {}),
                   Passing(<<"y">>, {Smoke})>>)>>)

\* c.py: fails to load.
FileC ==
    File(<<"c">>, FALSE, "invalid syntax",
         <<Class(<<"A">>, TRUE, FALSE, <<Passing(<<"x">>, {Smoke})>>),
           Class(<<"B">>, TRUE, FALSE,
                 <<Passing(<<"x">>, {}), Passing(<<"y">>, {})>>)>>)

\* d.py: a method missing from the instance, odd bindings, and a class
\* whose constructor raises.
FileD ==
    File(<<"d">>, TRUE, "",
         <<Class(<<"A">>, TRUE, FALSE,
                 <<Method(<<"x">>, FALSE, FALSE, <<>>, FALSE, "", "", {}),
                   Method(<<"y">>, TRUE, TRUE,
                          <<Binding("other", <<"s">>, TRUE, "TypeError", "t")>>,
                          FALSE, "", "", {Smoke, Slow}),
                   Method(<<"z">>, TRUE, TRUE, <<>>, FALSE, "", "", {})>>),
           Class(<<"B">>, TRUE, TRUE, <<Passing(<<"x">>, {})>>)>>)

\* e.py: no test class.
FileE == File(<<"e">>, TRUE, "", <<>>)

Files == {FileA, FileB, FileC, FileD, FileE}

\* The project trees: what scan(root_dir) yields, each file once.
Trees ==
    UNION {{t \in [1..n -> Files] : \A i, j \in 1..n : t[i] = t[j] => i = j}
           : n \in 0..MaxUnits}

\* The --filter values tried (None: not given).
FilterExprs ==
    {None,
     <<>>,
     <<"c">>,
     <<"b", ".", "A">>,
     <<"*", ".", "B", ".", "x">>,
     <<"a", ".", ".", "y">>,
     <<" ", "d", ".", "A", " ">>,
     <<"a", ".", "A", ".", "x", ".", "y">>}

\* The --suite values tried (None: not given).
Suites == {None, Smoke}

\* ------------------------------------------------------------------ preps
\* Session().preps of a new process: no prep is registered.
SessionPreps == <<>>

\* d[k] = v
DictSet(d, k, v) ==
    [x \in DOMAIN d \cup {k} |-> IF x = k THEN v ELSE d[x]]

\* d.setdefault(k, v)
SetDefault(d, k, v) == IF k \in DOMAIN d THEN d ELSE DictSet(d, k, v)

\* Line 48
AllowedScopes == {"session", "class", "method"}

\* Line 53: name or fn.__name__
PrepName(name, fn) ==
    IF name = None \/ name = <<>> THEN fn.fn_name ELSE name

\* Mutant of PrepStore: a name already registered in the scope keeps its
\* factory.
PrepStoreFirstWins(session_preps, scope, prep_name, fn) ==
    LET d == SetDefault(session_preps, scope, <<>>) IN
    DictSet(d, scope, SetDefault(d[scope], prep_name, fn))

\* Lines 54-55: setdefault of the scope, then the store under prep_name.
PrepStore(session_preps, scope, prep_name, fn) ==
    LET d == SetDefault(session_preps, scope, <<>>) IN
    DictSet(d, scope, DictSet(d[scope], prep_name, fn))

\* Mutant of Prep: the scope is not checked.
PrepUnchecked(session_preps, name, scope, fn) ==
    [preps |-> PrepStore(session_preps, scope, PrepName(name, fn), fn),
     raised |-> FALSE]

\* Lines 47-58: prep(name, scope=scope)(fn): the registry afterwards, and
\* whether the ValueError of line 50 was raised.
Prep(session_preps, name, scope, fn) ==
    IF scope \notin AllowedScopes
    THEN [preps |-> session_preps, raised |-> TRUE]
    ELSE [preps |-> PrepStore(session_preps, scope, PrepName(name, fn), fn),
          raised |-> FALSE]

\* The registrations tried: the three scopes and one that is not allowed, no
\* name, an empty name and an explicit name, and two factories, one of them
\* named like the explicit name.
Scopes == AllowedScopes \cup {"module"}
PrepNames == {None, <<>>, <<"p">>}
Factories == {[fn_name |-> <<"f">>], [fn_name |-> <<"p">>]}

\* ------------------------------------------------------------------ state
VARIABLES
    tree,            \* the files under root_dir, in scan order
    test_filter,     \* run()'s arguments
    suite,
    max_workers,
    batch_size,
    quiet,
    pc,              \* where run() is
    test_spec,       \* the prepared TestSpec filter
    all_tasks,
    collected_tests,
    results,         \* what the last worker_run_files call returned to run()
    reprs,
    next_task,       \* single worker: index of the next task of all_tasks
    batches,         \* multi worker: the submitted batches
    yielded,         \* multi worker: the futures as_completed has yielded
    stdout,          \* what has been printed
    events,          \* the exec, cls() and method calls made so far
    preps,           \* Session().preps: scope -> (prep name -> factory)
    prep_log         \* the prep registrations made so far

args == <<tree, test_filter, suite, max_workers, batch_size, quiet>>
vars == <<tree, test_filter, suite, max_workers, batch_size, quiet, pc,
          test_spec, all_tasks, collected_tests, results, reprs, next_task,
          batches, yielded, stdout, events, preps, prep_log>>
run_vars == <<args, pc, test_spec, all_tasks, collected_tests, results, reprs,
              next_task, batches, yielded, stdout, events>>
registry == <<preps, prep_log>>

Init ==
    /\ tree \in Trees
    /\ test_filter \in FilterExprs
    /\ suite \in Suites
    /\ max_workers \in {0, 1, MaxWorkers}
    /\ batch_size \in 1..MaxBatchSize
    /\ quiet \in BOOLEAN
    /\ pc = "filter"
    /\ test_spec = NoTestSpec
    /\ all_tasks = <<>>
    /\ collected_tests = 0
    /\ results = <<>>
    /\ reprs = <<>>
    /\ next_task = 1
    /\ batches = <<>>
    /\ yielded = {}
    /\ stdout = <<>>
    /\ events = <<>>
    /\ preps = SessionPreps
    /\ prep_log = <<>>

\* Lines 195-209: the header, then the filter; a bad filter raises ValueError.
PrepareFilter ==
    /\ pc = "filter"
    /\ LET f == PrepareTestFilter(test_filter) IN
       /\ test_spec' = f.spec
       /\ pc' = IF f.ok THEN "scan" ELSE "error"
    /\ stdout' = IF quiet THEN stdout ELSE stdout \o <<<<"Header">>>>
    /\ UNCHANGED <<registry, args, all_tasks, collected_tests, results, reprs, next_task,
                   batches, yielded, events>>

\* Lines 211-226: discovery.
Scan ==
    /\ pc = "scan"
    /\ LET d == Discover(tree) IN
       /\ all_tasks' = d.all_tasks
       /\ collected_tests' = d.collected_tests
    /\ stdout' = IF quiet THEN stdout ELSE stdout \o <<<<"Results">>>>
    /\ pc' = IF SingleWorker(max_workers) THEN "single" ELSE "submit"
    /\ UNCHANGED <<registry, args, test_spec, results, reprs, next_task, batches,
                   yielded, events>>

\* Lines 245-248: one task of the single-worker loop.
SingleWorkerStep ==
    /\ pc = "single"
    /\ next_task <= Len(all_tasks)
    /\ LET w == WorkerRunFiles(<<all_tasks[next_task]>>, test_spec) IN
       IF w.raised
       THEN /\ pc' = "aborted"
            /\ UNCHANGED <<results, reprs, next_task>>
       ELSE /\ results' = w.results
            /\ reprs' = reprs \o Map(ReprResult, w.results)
            /\ next_task' = next_task + 1
            /\ pc' = pc
    /\ events' = events \o WorkerEvents(<<all_tasks[next_task]>>, test_spec)
    /\ UNCHANGED <<registry, args, test_spec, all_tasks, collected_tests, batches,
                   yielded, stdout>>

\* Lines 252-259: the warning, the batches, and their submission to the pool.
SubmitBatches ==
    /\ pc = "submit"
    /\ batches' = Batches(all_tasks, batch_size)
    /\ stdout' = stdout \o <<<<"Warning">>>>
    /\ pc' = "collect"
    /\ UNCHANGED <<registry, args, test_spec, all_tasks, collected_tests, results, reprs,
                   next_task, yielded, events>>

\* Lines 260-262: as_completed yields the future of batch b, whose worker has
\* run worker_run_files on it; future.result() re-raises what the worker
\* raised. The worker's side effects are recorded when its future is yielded.
CollectFuture(b) ==
    /\ pc = "collect"
    /\ b \in (1..Len(batches)) \ yielded
    /\ yielded' = yielded \cup {b}
    /\ LET w == WorkerRunFiles(batches[b], test_spec) IN
       IF w.raised
       THEN /\ pc' = "aborted"
            /\ UNCHANGED <<results, reprs>>
       ELSE /\ results' = w.results
            /\ reprs' = reprs \o Map(ReprResult, w.results)
            /\ pc' = pc
    /\ events' = events \o WorkerEvents(batches[b], test_spec)
    /\ UNCHANGED <<registry, args, test_spec, all_tasks, collected_tests, next_task,
                   batches, stdout>>

\* Both loops are over.
Executed ==
    \/ pc = "single" /\ next_task > Len(all_tasks)
    \/ pc = "collect" /\ yielded = 1..Len(batches)

\* Lines 264-276: the result lines unless quiet, then the summary.
Summarize ==
    /\ Executed
    /\ stdout' = (IF quiet THEN stdout ELSE stdout \o Map(Str, reprs))
                 \o <<Summary(collected_tests, reprs)>>
    /\ pc' = "done"
    /\ UNCHANGED <<registry, args, test_spec, all_tasks, collected_tests, results, reprs,
                   next_task, batches, yielded, events>>

Next ==
    \/ PrepareFilter
    \/ Scan
    \/ SingleWorkerStep
    \/ SubmitBatches
    \/ \E b \in 1..MaxUnits : CollectFuture(b)
    \/ Summarize

Spec == Init /\ [][Next]_vars

\* The run is scheduled until it returns or raises.
FairSpec == Spec /\ WF_vars(Next)

\* ----------------------------------------------------- prep registrations
\* The calls @prep(name, scope=scope) applied to fn that are made before a
\* run starts.
PrepInit ==
    /\ tree = <<>>
    /\ test_filter = None
    /\ suite = None
    /\ max_workers = 0
    /\ batch_size = 1
    /\ quiet = FALSE
    /\ pc = "filter"
    /\ test_spec = NoTestSpec
    /\ all_tasks = <<>>
    /\ collected_tests = 0
    /\ results = <<>>
    /\ reprs = <<>>
    /\ next_task = 1
    /\ batches = <<>>
    /\ yielded = {}
    /\ stdout = <<>>
    /\ events = <<>>
    /\ preps = SessionPreps
    /\ prep_log = <<>>

\* Lines 47-58: @prep(name, scope=scope) applied to fn.
Register(name, scope, fn) ==
    /\ Len(prep_log) < MaxPreps
    /\ LET p == Prep(preps, name, scope, fn) IN
       /\ preps' = p.preps
       /\ prep_log' = Append(prep_log, [name |-> name, scope |-> scope,
                                        fn |-> fn, raised |-> p.raised])
    /\ UNCHANGED run_vars

PrepNext ==
    \E name \in PrepNames, scope \in Scopes, fn \in Factories :
        Register(name, scope, fn)

PrepSpec == PrepInit /\ [][PrepNext]_vars

\* ------------------------------------------------------------------ claims
Range(q) == {q[i] : i \in 1..Len(q)}

BagOfSeq(q) == [x \in Range(q) |-> Cardinality({i \in 1..Len(q) : q[i] = x})]

\* The discovered (unit, class, method) triples, as indices into all_tasks.
Triples ==
    UNION {UNION {{<<i, j, k>> :
                     k \in 1..Len(all_tasks[i].content.classes[j].methods)}
                  : j \in 1..Len(all_tasks[i].content.classes)}
           : i \in 1..Len(all_tasks)}

UnitOf(t) == all_tasks[t[1]].content
UnitId(t) == all_tasks[t[1]].file_name
ClassOf(t) == UnitOf(t).classes[t[2]]
MethodOf(t) == ClassOf(t).methods[t[3]]

\* The triple passes the three patterns of the prepared filter.
Survives(t) ==
    /\ PassesFilter(UnitId(t), test_spec.file_name)
    /\ PassesFilter(ClassOf(t).name, test_spec.cls_name)
    /\ PassesFilter(MethodOf(t).name, test_spec.method_name)

\* The outcomes collected so far that name the triple, in order.
OutcomesOf(t) ==
    SelectSeq(reprs, LAMBDA r: /\ r.file_name = UnitId(t)
                               /\ r.cls_name = ClassOf(t).name
                               /\ r.method_name = MethodOf(t).name)

\* The results of unit i of all_tasks have been added to reprs.
Processed(i) ==
    IF SingleWorker(max_workers)
    THEN pc \in {"single", "done", "aborted"} /\ i < next_task
    ELSE /\ pc \in {"collect", "done"}
         /\ \E b \in yielded : \E j \in 1..Len(batches[b]) :
                batches[b][j].file_name = all_tasks[i].file_name

HasSummary == \E i \in 1..Len(stdout) : stdout[i][1] = "Summary"
TheSummary == stdout[Len(stdout)]

\* C1 (as claimed): with --suite S, no outcome exists for a method whose
\* __suites__ tags do not contain S.
C1_SuiteSkipsUntagged ==
    suite # None =>
        \A t \in Triples : suite \notin MethodOf(t).suites => OutcomesOf(t) = <<>>

\* The triple is resolved and called with an empty __params__ list, which
\* yields no outcome at all.
NoBindings(t) ==
    /\ UnitOf(t).loads /\ ClassOf(t).present /\ ~ClassOf(t).ctor_raises
    /\ MethodOf(t).found /\ MethodOf(t).has_params /\ MethodOf(t).params = <<>>

\* Loading, class lookup, instantiation or method lookup fails for the triple.
Broken(t) ==
    \/ ~UnitOf(t).loads \/ ~ClassOf(t).present
    \/ ClassOf(t).ctor_raises \/ ~MethodOf(t).found

\* C2 (as claimed): when the run is over, every surviving method with a
\* binding has its outcome, a failed one when its unit, class or method is
\* broken, whatever failed elsewhere.
C2_FailuresIsolated ==
    pc \in {"done", "aborted"} =>
        \A t \in Triples :
            Survives(t) /\ ~NoBindings(t) =>
                /\ OutcomesOf(t) # <<>>
                /\ Broken(t) =>
                     \A i \in 1..Len(OutcomesOf(t)) : ~OutcomesOf(t)[i].status

\* C3: a run that reports has collected exactly the outcomes of the
\* single-worker loop over the same tasks and filter, as a multiset, and
\* prints the summary of those; a run that raises is one whose single-worker
\* loop raises too.
C3_SingleMultiAgree ==
    LET single == SingleWorkerRun(all_tasks, test_spec) IN
    /\ pc = "done" =>
          /\ ~single.raised
          /\ BagOfSeq(reprs) = BagOfSeq(single.reprs)
          /\ TheSummary = Summary(collected_tests, single.reprs)
    /\ pc = "aborted" => single.raised

\* C3 witness: a multi-worker run of several batches has reported, with its
\* outcomes in another order than the single-worker loop gives.
C3_Witness ==
    /\ pc = "done" /\ ~SingleWorker(max_workers)
    /\ Len(batches) >= 2
    /\ \E b \in 1..Len(batches) : Len(batches[b]) >= 2
    /\ Len(reprs) >= 3
    /\ reprs # SingleWorkerRun(all_tasks, test_spec).reprs

\* The bindings attached to a method, as an outcome carries them: those of
\* its __params__ in order, or the single empty binding when it has none.
BindingsOf(m) ==
    IF m.has_params
    THEN [i \in 1..Len(m.params) |->
             [kind |-> m.params[i].kind, args |-> m.params[i].args]]
    ELSE <<NoneBinding>>

\* The unit loads and the class and the method of the triple are found and
\* the class is instantiated.
Resolved(t) == ~Broken(t)

\* C4: a surviving, resolved method of a processed unit has one outcome per
\* attached binding, in binding order, each showing its own binding (one
\* outcome showing none without __params__); and the outcomes a worker
\* returns for it carry exactly those bindings.
C4_OutcomePerBinding ==
    \A t \in Triples :
        Survives(t) /\ Resolved(t) =>
            LET bs == BindingsOf(MethodOf(t))
                shown == [i \in 1..Len(bs) |->
                            IF bs[i].args = <<>> THEN <<>>
                            ELSE <<"[", bs[i], "]">>]
                returned == SelectSeq(results,
                                LAMBDA r: /\ r.file_name = UnitId(t)
                                          /\ r.cls_name = ClassOf(t).name
                                          /\ r.method_name = MethodOf(t).name)
                outcomes == OutcomesOf(t)
            IN /\ Processed(t[1]) =>
                    /\ Len(outcomes) = Len(bs)
                    /\ \A i \in 1..Len(bs) :
                          outcomes[i].params_exp = shown[i]
               /\ returned # <<>> =>
                    /\ Len(returned) = Len(bs)
                    /\ \A i \in 1..Len(bs) : returned[i].params = bs[i]

\* C4 witness: a finished run holds the three outcomes of a method with three
\* bindings and the single outcome of a method without __params__.
C4_Witness ==
    /\ pc = "done"
    /\ \E t \in Triples : /\ Survives(t) /\ Resolved(t)
                          /\ MethodOf(t).has_params
                          /\ Len(MethodOf(t).params) = 3
                          /\ Len(OutcomesOf(t)) = 3
    /\ \E t \in Triples : /\ Survives(t) /\ Resolved(t)
                          /\ ~MethodOf(t).has_params
                          /\ Len(OutcomesOf(t)) = 1

\* C5: a processed unit that fails to load and passes the file pattern has,
\* for each surviving (class, method) pair, exactly one outcome, failed and
\* classified ExecError, and no other outcome; and a run never aborts unless
\* a surviving class of a unit that loads raises in its constructor.
C5_ExecErrorPerSurvivor ==
    /\ \A i \in 1..Len(all_tasks) :
          Processed(i) /\ ~all_tasks[i].content.loads =>
              LET mine == {t \in Triples : t[1] = i /\ Survives(t)}
                  got == SelectSeq(reprs,
                            LAMBDA r: r.file_name = all_tasks[i].file_name)
              IN /\ \A t \in mine :
                       /\ Len(OutcomesOf(t)) = 1
                       /\ ~OutcomesOf(t)[1].status
                       /\ OutcomesOf(t)[1].error =
                             <<"ExecError: ", all_tasks[i].content.exc_msg>>
                 /\ Len(got) = Cardinality(mine)
    /\ pc = "aborted" =>
          \E t \in Triples : /\ Survives(t) /\ UnitOf(t).loads
                             /\ ClassOf(t).present /\ ClassOf(t).ctor_raises

\* C5 witness: a unit that fails to load has its ExecError outcomes and a
\* unit after it has been run and has outcomes too.
C5_Witness ==
    \E i, j \in 1..Len(all_tasks) :
        /\ i < j /\ Processed(i) /\ Processed(j)
        /\ ~all_tasks[i].content.loads
        /\ \E t \in Triples : t[1] = i /\ Len(OutcomesOf(t)) = 1
        /\ \E t \in Triples : t[1] = i /\ ~Survives(t)
        /\ \E t \in Triples : t[1] = j /\ OutcomesOf(t) # <<>>

\* C6: every outcome's unit id, class name and method name pass the file,
\* class and method patterns of the prepared filter (a pattern that is
\* absent, empty or "*" passes everything, any other only an equal name).
C6_OutcomesMatchFilter ==
    \A i \in 1..Len(reprs) :
        /\ PassesFilter(reprs[i].file_name, test_spec.file_name)
        /\ PassesFilter(reprs[i].cls_name, test_spec.cls_name)
        /\ PassesFilter(reprs[i].method_name, test_spec.method_name)

\* C6 witness: a run filtered on a file and a class has finished with
\* outcomes, while another unit and another class of the same unit were
\* discovered.
C6_Witness ==
    /\ pc = "done" /\ reprs # <<>>
    /\ Restricts(test_spec.file_name) /\ Restricts(test_spec.cls_name)
    /\ \E t \in Triples : UnitId(t) # test_spec.file_name
    /\ \E t \in Triples : /\ UnitId(t) = test_spec.file_name
                          /\ ClassOf(t).name # test_spec.cls_name

\* The selection is narrowed: a discovered method is not selected. (The suite
\* never narrows it: run() does not read its suite argument.)
Narrowed == \E t \in Triples : ~Survives(t)

\* C7 (as claimed): in a run whose selection is narrowed, the executed count
\* of the summary is at most its collected count.
C7_ExecutedAtMostCollected ==
    pc = "done" /\ Narrowed => TheSummary[3] <= TheSummary[2]

\* C8 (as claimed): without filter and suite, the executed count of the
\* summary equals its collected count.
C8_UnfilteredExecutesAll ==
    /\ pc = "done"
    /\ test_filter = None \/ test_filter = <<>>
    /\ suite = None
    => TheSummary[3] = TheSummary[2]

\* The result lines printed so far.
ResultLines == SelectSeq(stdout, LAMBDA l: l[1] \in {"[PASS]", "[FAIL]"})

\* C9 (as claimed): a run that got past the filter and has ended has printed
\* the summary; quiet suppresses the result lines and nothing else.
C9_SummaryAlwaysReported ==
    pc \in {"done", "aborted"} =>
        /\ HasSummary
        /\ ResultLines = IF quiet THEN <<>> ELSE Map(Str, reprs)

\* The positions of the dots of a filter expression, and its segments.
Dots(e) == {i \in 1..Len(e) : e[i] = "."}
NthDot(e, n) ==
    CHOOSE d \in Dots(e) : Cardinality({x \in Dots(e) : x < d}) = n - 1
Segment(e, n) ==
    SubSeq(e,
           IF n = 1 THEN 1 ELSE NthDot(e, n - 1) + 1,
           IF n = Cardinality(Dots(e)) + 1 THEN Len(e) ELSE NthDot(e, n) - 1)

\* p is s without its leading and trailing blanks.
IsStripped(p, s) ==
    /\ p # <<>> => p[1] # " " /\ p[Len(p)] # " "
    /\ \E a \in 0..Len(s) :
          /\ a + Len(p) <= Len(s)
          /\ SubSeq(s, a + 1, a + Len(p)) = p
          /\ \A i \in (1..a) \cup ((a + Len(p) + 1)..Len(s)) : s[i] = " "

\* C10: once the filter is prepared, the run is in error exactly when the
\* expression has more than three segments (it always has at least one); an
\* accepted expression's segments, stripped of blanks, are the file, class
\* and method patterns in order, the missing ones absent; and a run in error
\* has scanned nothing and has no task, outcome or summary.
C10_FilterFormat ==
    pc # "filter" =>
        LET n == Cardinality(Dots(test_filter)) + 1
            pats == <<test_spec.file_name, test_spec.cls_name,
                      test_spec.method_name>>
        IN /\ test_filter = None => pc # "error" /\ test_spec = NoTestSpec
           /\ test_filter # None =>
                /\ pc = "error" <=> ~(1 <= n /\ n <= 3)
                /\ pc # "error" /\ test_filter # <<>> =>
                      \A k \in 1..3 :
                          IF k <= n
                          THEN IsStripped(pats[k], Segment(test_filter, k))
                          ELSE pats[k] = None
           /\ pc = "error" =>
                /\ all_tasks = <<>> /\ collected_tests = 0
                /\ batches = <<>> /\ reprs = <<>> /\ ~HasSummary

\* C10 witness: a four-segment filter has put the run in error although the
\* tree holds test classes.
C10_Witness ==
    /\ pc = "error"
    /\ Cardinality(Dots(test_filter)) = 3
    /\ Discover(tree).all_tasks # <<>>

\* The discovered triple an outcome names, as indices.
TripleOf(r) ==
    LET i == CHOOSE u \in 1..Len(all_tasks) :
                 all_tasks[u].file_name = r.file_name
        classes == all_tasks[i].content.classes
        j == CHOOSE c \in 1..Len(classes) : classes[c].name = r.cls_name
        k == CHOOSE m \in 1..Len(classes[j].methods) :
                 classes[j].methods[m].name = r.method_name
    IN <<i, j, k>>

\* Lexicographic order of triples: unit, then class, then method position.
Before(s, t) ==
    \/ s[1] < t[1]
    \/ s[1] = t[1] /\ s[2] < t[2]
    \/ s[1] = t[1] /\ s[2] = t[2] /\ s[3] <= t[3]

\* Units i and j of all_tasks were run by the same worker_run_files call of
\* a multi-worker run.
SameBatch(i, j) ==
    \E b \in 1..Len(batches) :
        /\ \E k \in 1..Len(batches[b]) :
              batches[b][k].file_name = all_tasks[i].file_name
        /\ \E k \in 1..Len(batches[b]) :
              batches[b][k].file_name = all_tasks[j].file_name

\* C11: in a single-worker run every two outcomes, and in a multi-worker run
\* every two outcomes of one batch, stand in the order of their units, then
\* of their classes, then of their methods; and the outcomes of one resolved
\* method stand in the order of its bindings.
C11_OutcomeOrder ==
    /\ LET at == [a \in 1..Len(reprs) |-> TripleOf(reprs[a])] IN
       \A a, b \in 1..Len(reprs) :
          /\ a < b
          /\ \/ SingleWorker(max_workers)
             \/ SameBatch(at[a][1], at[b][1])
          => Before(at[a], at[b])
    /\ \A t \in Triples :
          LET outcomes == OutcomesOf(t)
              bindings == BindingsOf(MethodOf(t)) IN
          (MethodOf(t).has_params /\ Resolved(t)
              /\ Len(outcomes) = Len(bindings)) =>
              \A i \in 1..Len(outcomes) :
                  outcomes[i].params_exp =
                      IF bindings[i].args = <<>> THEN <<>>
                      ELSE <<"[", bindings[i], "]">>

\* C11 witness: a multi-worker run has finished with an outcome of a later
\* unit before one of an earlier unit of another batch, while two units of
\* one batch both have outcomes.
C11_Witness ==
    /\ pc = "done" /\ ~SingleWorker(max_workers)
    /\ \E a, b \in 1..Len(reprs) :
          a < b /\ TripleOf(reprs[a])[1] > TripleOf(reprs[b])[1]
    /\ \E a, b \in 1..Len(reprs) :
          /\ TripleOf(reprs[a])[1] # TripleOf(reprs[b])[1]
          /\ SameBatch(TripleOf(reprs[a])[1], TripleOf(reprs[b])[1])
    /\ \E a, b \in 1..Len(reprs) :
          /\ TripleOf(reprs[a])[1] = TripleOf(reprs[b])[1]
          /\ TripleOf(reprs[a])[2] # TripleOf(reprs[b])[2]

\* The batches of a multi-worker run have been submitted.
Submitted ==
    ~SingleWorker(max_workers) /\ pc \in {"collect", "done", "aborted"}

\* C12: the submitted batches are ceil(n / batch_size) in number, none is
\* empty or longer than batch_size, put end to end they are all_tasks (so
\* every unit is in exactly one batch, in its original place), and
\* as_completed yields submitted futures only.
C12_BatchesPartition ==
    Submitted =>
        /\ Len(batches) * batch_size >= Len(all_tasks)
        /\ (Len(batches) - 1) * batch_size < Len(all_tasks)
           \/ (Len(batches) = 0 /\ Len(all_tasks) = 0)
        /\ \A b \in 1..Len(batches) :
              1 <= Len(batches[b]) /\ Len(batches[b]) <= batch_size
        /\ ConcatAll(batches) = all_tasks
        /\ \A i \in 1..Len(all_tasks) :
              Cardinality({b \in 1..Len(batches) :
                             \E k \in 1..Len(batches[b]) :
                                 batches[b][k] = all_tasks[i]}) = 1
        /\ yielded \subseteq 1..Len(batches)

\* C12 witness: three discovered units with batch size 1 make three batches.
C12_Witness ==
    /\ Submitted /\ Len(all_tasks) = 3 /\ batch_size = 1 /\ Len(batches) = 3

\* C13: the summary's executed count is the number of outcomes, its failed
\* count the number of outcomes that did not pass, its passed count their
\* difference; and the unit with one passing method and one raising
\* ValueError("x"), run alone and whole, gives collected 2, executed 2,
\* failed 1, passed 1 with "x" in the failed outcome's error.
C13_SummaryFromOutcomes ==
    pc = "done" =>
        /\ TheSummary[3] = Len(reprs)
        /\ TheSummary[4] = Len(SelectSeq(reprs, LAMBDA r: ~r.status))
        /\ TheSummary[5] = TheSummary[3] - TheSummary[4]
        /\ TheSummary[5] = Len(SelectSeq(reprs, LAMBDA r: r.status))
        /\ tree = <<FileA>> /\ (\A t \in Triples : Survives(t)) =>
              /\ TheSummary = <<"Summary", 2, 2, 1, 1>>
              /\ \E i \in 1..Len(reprs) :
                    /\ ~reprs[i].status
                    /\ reprs[i].error[Len(reprs[i].error)] = "x"

\* C13 witness: that unit has been run alone and unfiltered.
C13_Witness ==
    /\ pc = "done" /\ tree = <<FileA>> /\ test_filter = None
    /\ Len(reprs) = 2

RECURSIVE SumSeq(_)
SumSeq(q) == IF q = <<>> THEN 0 ELSE Head(q) + SumSeq(Tail(q))

\* The number of test methods in the files of the tree that hold a test
\* class.
TreeMethodCount ==
    SumSeq([i \in 1..Len(tree) |->
              IF tree[i].classes = <<>> THEN 0
              ELSE SumSeq([j \in 1..Len(tree[i].classes) |->
                             Len(tree[i].classes[j].methods)])])

\* C14: from discovery on, the collected count is the number of discovered
\* methods of the tree, whatever the filter, suite, worker count, batch size
\* and outcomes, and the summary reports that number.
C14_CollectedFromDiscovery ==
    /\ pc \notin {"filter", "scan", "error"} =>
          collected_tests = TreeMethodCount
    /\ pc = "done" => TheSummary[2] = TreeMethodCount

\* C14 witness: a filtered multi-worker run over a tree with a file without
\* test class has reported fewer executed than collected.
C14_Witness ==
    /\ pc = "done" /\ ~SingleWorker(max_workers)
    /\ \E t \in Triples : ~Survives(t)
    /\ \E i \in 1..Len(tree) : tree[i].classes = <<>>
    /\ reprs # <<>>
    /\ TheSummary[3] < TheSummary[2]

\* C15: every outcome, in reprs and in what a worker returned, names a
\* (unit id, class name, method name) of the discovered tasks.
C15_OutcomesDiscovered ==
    /\ \A i \in 1..Len(reprs) :
          \E t \in Triples : /\ reprs[i].file_name = UnitId(t)
                             /\ reprs[i].cls_name = ClassOf(t).name
                             /\ reprs[i].method_name = MethodOf(t).name
    /\ \A i \in 1..Len(results) :
          \E t \in Triples : /\ results[i].file_name = UnitId(t)
                             /\ results[i].cls_name = ClassOf(t).name
                             /\ results[i].method_name = MethodOf(t).name

\* C15 witness: ExecError, ClassNotFound and invocation outcomes are held.
C15_Witness ==
    /\ \E i \in 1..Len(reprs) : reprs[i].error = <<"ClassNotFound">>
    /\ \E i \in 1..Len(reprs) :
          reprs[i].error # <<>> /\ reprs[i].error[1] = "ExecError: "
    /\ \E i \in 1..Len(reprs) : reprs[i].status

\* An outcome of the binding loop (lines 160-179), not one of the ExecError,
\* ClassNotFound and MethodNotFound records.
FromBinding(r) ==
    \/ r.status
    \/ /\ r.error # <<"ClassNotFound">> /\ r.error # <<"MethodNotFound">>
       /\ r.error[1] # "ExecError: "

\* The calls of r's method made with r's binding.
CallsOf(r) ==
    {k \in 1..Len(events) :
        /\ events[k].ev = "call"
        /\ events[k].file_name = r.file_name
        /\ events[k].cls_name = r.cls_name
        /\ events[k].method_name = r.method_name
        /\ events[k].params = r.params}

\* The outcomes of the last returned list with r's method and binding.
OutcomesLike(r) ==
    {k \in 1..Len(results) :
        /\ FromBinding(results[k])
        /\ results[k].file_name = r.file_name
        /\ results[k].cls_name = r.cls_name
        /\ results[k].method_name = r.method_name
        /\ results[k].params = r.params}

\* C18: every outcome of the binding loop stands for one call of its method
\* with its binding, made with no arguments for none, named arguments for a
\* mapping and positional arguments for a sequence; it is failed exactly when
\* it carries "<type name> - <message or Undefined>"; and no passed outcome
\* is recorded for a binding with which the method was not called.
C18_InvokedAsRecorded ==
    \A i \in 1..Len(results) :
        FromBinding(results[i]) =>
            /\ Cardinality(CallsOf(results[i]))
                   = Cardinality(OutcomesLike(results[i]))
            /\ \A k \in CallsOf(results[i]) :
                  events[k].style =
                      IF results[i].params.kind = "none" THEN "no arguments"
                      ELSE IF results[i].params.kind = "dict" THEN "named"
                      ELSE "positional"
            /\ ~results[i].status =>
                  /\ Len(results[i].error) = 3
                  /\ results[i].error[2] = " - "
                  /\ results[i].error[3] # ""
            /\ results[i].status => results[i].error = NoError

\* No (class, method) pair of unit i passes the filter: the unit fails the
\* file pattern, or none of its pairs passes the class and method patterns.
SkippedUnit(i) == \A t \in Triples : t[1] = i => ~Survives(t)

\* C19: a unit that fails the file filter, or of which no (class, method)
\* pair survives, is never exec'ed, none of its classes is instantiated, none
\* of its methods is called and no outcome names it.
C19_SkippedNeverLoaded ==
    \A i \in 1..Len(all_tasks) :
        SkippedUnit(i) =>
            /\ \A k \in 1..Len(events) :
                  events[k].file_name # all_tasks[i].file_name
            /\ \A k \in 1..Len(reprs) :
                  reprs[k].file_name # all_tasks[i].file_name
            /\ \A k \in 1..Len(results) :
                  results[k].file_name # all_tasks[i].file_name

\* C19 witness: a run is over in which one unit passed the file pattern
\* without a surviving pair and was left alone, while another was exec'ed.
C19_Witness ==
    /\ pc = "done"
    /\ \E i \in 1..Len(all_tasks) :
          /\ PassesFilter(all_tasks[i].file_name, test_spec.file_name)
          /\ all_tasks[i].content.loads
          /\ SkippedUnit(i)
    /\ \E k \in 1..Len(events) : events[k].ev = "exec"
    /\ reprs # <<>>

\* The events of the given kind that name the triple's class (and, for a
\* call, its method).
EventsOf(t, ev) ==
    {k \in 1..Len(events) :
        /\ events[k].ev = ev
        /\ events[k].file_name = UnitId(t)
        /\ events[k].cls_name = ClassOf(t).name
        /\ ev = "call" => events[k].method_name = MethodOf(t).name}

\* C20: in a unit that loaded and whose outcomes were returned, a surviving
\* method of a class missing from the namespace has exactly one outcome, a
\* failed ClassNotFound, and the class is not instantiated; a surviving
\* method missing from the instance has exactly one outcome, a failed
\* MethodNotFound; neither is called, and every other surviving method of
\* the unit that has a binding still has its outcomes.
C20_MissingClassOrMethod ==
    \A t \in Triples :
        Processed(t[1]) /\ Survives(t) /\ UnitOf(t).loads =>
            /\ ~ClassOf(t).present =>
                  /\ Len(OutcomesOf(t)) = 1
                  /\ ~OutcomesOf(t)[1].status
                  /\ OutcomesOf(t)[1].error = <<"ClassNotFound">>
                  /\ EventsOf(t, "init") = {}
                  /\ EventsOf(t, "call") = {}
            /\ ClassOf(t).present /\ ~MethodOf(t).found =>
                  /\ Len(OutcomesOf(t)) = 1
                  /\ ~OutcomesOf(t)[1].status
                  /\ OutcomesOf(t)[1].error = <<"MethodNotFound">>
                  /\ EventsOf(t, "call") = {}
            /\ ClassOf(t).present /\ MethodOf(t).found /\ ~NoBindings(t) =>
                  OutcomesOf(t) # <<>>

\* C20 witness: a ClassNotFound outcome is followed by an outcome of the
\* next class of its unit, and a MethodNotFound outcome by an outcome of the
\* next method of its class.
C20_Witness ==
    /\ \E a, b \in 1..Len(reprs) :
          /\ a < b
          /\ reprs[a].error = <<"ClassNotFound">>
          /\ reprs[b].file_name = reprs[a].file_name
          /\ reprs[b].cls_name # reprs[a].cls_name
          /\ reprs[b].status
    /\ \E a, b \in 1..Len(reprs) :
          /\ a < b
          /\ reprs[a].error = <<"MethodNotFound">>
          /\ reprs[b].file_name = reprs[a].file_name
          /\ reprs[b].cls_name = reprs[a].cls_name
          /\ reprs[b].method_name # reprs[a].method_name
          /\ reprs[b].status

\* The name a registration is made under.
NameOf(e) == IF e.name = None \/ e.name = <<>> THEN e.fn.fn_name ELSE e.name

\* The registrations that did not raise and were made under (scope, n).
RegistrationsOf(scope, n) ==
    {k \in 1..Len(prep_log) :
        /\ ~prep_log[k].raised
        /\ prep_log[k].scope = scope
        /\ NameOf(prep_log[k]) = n}

Latest(ks) == CHOOSE k \in ks : \A j \in ks : j <= k

Registered(scope, n) ==
    scope \in DOMAIN preps /\ n \in DOMAIN preps[scope]

\* C16: after any sequence of registrations the registry holds, for every
\* (scope, name), the factory of the latest registration made under it and
\* nothing when there was none; a registration without a name counts under
\* its factory's function name.
C16_LastRegistrationWins ==
    \A scope \in Scopes, n \in {<<"f">>, <<"p">>, <<>>, None} :
        IF RegistrationsOf(scope, n) = {}
        THEN ~Registered(scope, n)
        ELSE /\ Registered(scope, n)
             /\ preps[scope][n] = prep_log[Latest(RegistrationsOf(scope, n))].fn

\* C16 witness: a named registration was overwritten by a later unnamed one
\* of another factory, while an entry of another scope is still held.
C16_Witness ==
    /\ \E i, j \in 1..Len(prep_log) :
          /\ i < j
          /\ prep_log[i].scope = prep_log[j].scope
          /\ prep_log[i].name = <<"p">> /\ prep_log[j].name = None
          /\ prep_log[i].fn # prep_log[j].fn
          /\ Registered(prep_log[j].scope, <<"p">>)
          /\ preps[prep_log[j].scope][<<"p">>] = prep_log[j].fn
    /\ Cardinality(DOMAIN preps) = 2

\* C17: a registration whose scope is not session, class or method raises
\* and leaves the registry as it was.
C17_InvalidScopeRejected ==
    [][/\ Len(prep_log') = Len(prep_log) + 1
       /\ prep_log'[Len(prep_log')].scope \notin {"session", "class", "method"}
       => /\ prep_log'[Len(prep_log')].raised
          /\ preps' = preps]_vars

\* C17 witness: a registration with scope "module" has raised while the
\* registry held an entry.
C17_Witness ==
    /\ prep_log # <<>>
    /\ prep_log[Len(prep_log)].scope = "module"
    /\ prep_log[Len(prep_log)].raised
    /\ preps # <<>>

====
